---- MODULE Spec2Model ----
(***************************************************************************)
(* Task discovery and dynamic API registration of the jinjamator daemon:   *)
(* discover_tasks (daemon/api/endpoints/tasks.py), the TaskList and        *)
(* per-task resources it registers, and run() (daemon/__init__.py).        *)
(*                                                                         *)
(* Strings are sequences of one-character strings, so that str.replace,    *)
(* str.split, str.startswith, slicing, os.path.dirname, os.path.join and   *)
(* glob.glob are modelled by what they do.                                 *)
(***************************************************************************)
EXTENDS Naturals, Sequences, FiniteSets, TLC

VARIABLES
    tasks_base_dirs,          \* app.config["JINJAMATOR_TASKS_BASE_DIRECTORIES"]
    fs,                       \* the files on disk (absolute paths)
    load_result,              \* outcome of JinjamatorTask.load / get_jsonform_schema per directory
    doc_result,               \* outcome of get_section_from_task_doc per directory
    glob_order,               \* the order in which the filesystem lists the files
    available_tasks_by_id,    \* module global, tasks.py:22
    available_tasks_by_path,  \* module global, tasks.py:23
    task_models,              \* module global, tasks.py:24
    routes,                   \* endpoints registered on the tasks namespace
    task_arguments,           \* number of arguments added to the request parser
    pc,                       \* "boot", "discovering", "returned", "raised", "serving"
    bi,                       \* index of the base directory being scanned
    ei,                       \* index of the file extension being globbed
    yielded,                  \* files the current glob call has produced
    log,                      \* records written by log.info / log.error
    by_path_before,           \* available_tasks_by_path when the current pass began
    task_models_before,       \* task_models when the current pass began
    response                  \* the last HTTP response sent

vars == <<tasks_base_dirs, fs, load_result, doc_result, glob_order,
          available_tasks_by_id, available_tasks_by_path, task_models, routes,
          task_arguments, pc, bi, ei, yielded, log, by_path_before,
          task_models_before, response>>

(***************************************************************************)
(* Bounds                                                                  *)
(***************************************************************************)
MaxFiles == 3

MaxPasses == 2

(***************************************************************************)
(* Strings                                                                 *)
(***************************************************************************)
Sep == "/"

EmptyStr == << >>

IsPrefix(p, s) == Len(p) <= Len(s) /\ SubSeq(s, 1, Len(p)) = p

EndsWith(s, p) == Len(p) <= Len(s) /\ SubSeq(s, Len(s) - Len(p) + 1, Len(s)) = p

\* s.replace(old, ''): every non-overlapping occurrence, left to right
RECURSIVE StrReplace(_, _)
StrReplace(s, old) ==
    IF Len(s) < Len(old) THEN s
    ELSE IF IsPrefix(old, s)
         THEN StrReplace(SubSeq(s, Len(old) + 1, Len(s)), old)
         ELSE <<Head(s)>> \o StrReplace(Tail(s), old)

\* s.split(os.path.sep)
RECURSIVE StrSplit(_)
StrSplit(s) ==
    IF \A i \in 1..Len(s) : s[i] # Sep THEN <<s>>
    ELSE LET i == CHOOSE k \in 1..Len(s) : s[k] = Sep /\ \A j \in 1..(k-1) : s[j] # Sep
         IN  <<SubSeq(s, 1, i - 1)>> \o StrSplit(SubSeq(s, i + 1, Len(s)))

\* s[1:]
StrTail(s) == IF s = EmptyStr THEN EmptyStr ELSE Tail(s)

\* s.rstrip('/')
RECURSIVE RStripSep(_)
RStripSep(s) ==
    IF s # EmptyStr /\ s[Len(s)] = Sep THEN RStripSep(SubSeq(s, 1, Len(s) - 1)) ELSE s

\* os.path.dirname (posixpath)
OsPathDirname(p) ==
    LET seps == {k \in 1..Len(p) : p[k] = Sep}
        i    == IF seps = {} THEN 0 ELSE CHOOSE k \in seps : \A j \in seps : j <= k
        head == SubSeq(p, 1, i)
    IN  IF head # EmptyStr /\ (\E k \in 1..Len(head) : head[k] # Sep)
        THEN RStripSep(head) ELSE head

\* os.path.join(a, b) (posixpath)
OsPathJoin(a, b) ==
    IF b # EmptyStr /\ b[1] = Sep THEN b
    ELSE IF a = EmptyStr \/ a[Len(a)] = Sep THEN a \o b
    ELSE a \o <<Sep>> \o b

(***************************************************************************)
(* The environment: configured base directories and files on disk          *)
(***************************************************************************)
BaseT == <<"/", "t">>

BaseTSlash == <<"/", "t", "/">>

BaseU == <<"/", "u">>

BaseUnderscore == <<"/", "_">>

\* values of JINJAMATOR_TASKS_BASE_DIRECTORIES (daemon/__init__.py:126)
BaseConfigs ==
    { <<BaseT>>, <<BaseTSlash>>, <<BaseUnderscore>>, <<BaseT, BaseU>>, <<BaseU, BaseT>> }

FileUniverse ==
    { <<"/", "t", "/", "n", "/", "a", ".", "p", "y">>,
      <<"/", "t", "/", "n", "/", "b", ".", "j", "2">>,
      <<"/", "u", "/", "n", "/", "a", ".", "p", "y">>,
      <<"/", "t", "/", ".", "g", "/", "a", ".", "p", "y">>,
      <<"/", "t", "/", "_", "_", "p", "y", "c", "a", "c", "h", "e", "_", "_", "/", "a", ".", "p", "y">>,
      <<"/", "t", "/", "m", "/", "a", ".", "p", "y">>,
      <<"/", "t", "/", "m", "/", "t", "/", "a", ".", "p", "y">>,
      <<"/", "_", "/", "_", "_", "p", "y", "c", "a", "c", "h", "e", "_", "_", "/", "a", ".", "p", "y">> }

TaskDirs(files) == { OsPathDirname(f) : f \in files }

AllDirs == TaskDirs(FileUniverse)

\* task.load (tasks.py:57) succeeds and the schema is derived (tasks.py:59), or
\* one of the two raises
LoadOutcomes == {"ok", "load_error", "schema_error"}

DocOutcomes == {"text", "absent", "raises"}

PyCache == <<"_", "_", "p", "y", "c", "a", "c", "h", "e", "_", "_">>

\* for file_ext in ['py','j2']
FileExts == << <<"p", "y">>, <<"j", "2">> >>

(***************************************************************************)
(* glob.glob(os.path.join(tasks_base_dir, '**', '*.<ext>'), recursive=True)*)
(* '**' and '*' never match a name that starts with a dot.                 *)
(***************************************************************************)
GlobMatches(base, ext, files) ==
    LET root == RStripSep(base) \o <<Sep>>
    IN  { f \in files :
            /\ IsPrefix(root, f)
            /\ LET comps == StrSplit(SubSeq(f, Len(root) + 1, Len(f)))
               IN  /\ \A i \in 1..Len(comps) : comps[i] # EmptyStr /\ comps[i][1] # "."
                   /\ EndsWith(comps[Len(comps)], <<".">> \o ext) }

(***************************************************************************)
(* The body of the discovery loop, tasks.py:33-50                          *)
(***************************************************************************)
\* the hidden-directory filter: append stays True
FilterAppend(tasks_base_dir, task_dir) ==
    LET chunks == StrSplit(StrReplace(task_dir, tasks_base_dir))
    IN  \A i \in 1..Len(chunks) :
            ~ (IsPrefix(<<".">>, chunks[i]) \/ chunks[i] = PyCache)

\* dir_name = task_dir.replace(tasks_base_dir,'')[1:]
DirName(tasks_base_dir, task_dir) == StrTail(StrReplace(task_dir, tasks_base_dir))

\* xxhash.xxh64(task_dir).hexdigest(): a deterministic digest of the path string,
\* kept as the tagged string (distinct paths give distinct digests, and no
\* digest is a relative path of the universe)
TaskId(task_dir) == <<"xxh64:">> \o task_dir

Description(doc) == IF doc = "text" THEN "doc section" ELSE "no description"

TaskInfo(tasks_base_dir, task_dir, doc) ==
    [ id          |-> TaskId(task_dir),
      path        |-> DirName(tasks_base_dir, task_dir),
      base_dir    |-> tasks_base_dir,
      description |-> Description(doc) ]

\* the directory task.load is given: os.path.join(task_info['base_dir'], task_info['path'])
LoadPath(task_info) == OsPathJoin(task_info.base_dir, task_info.path)

(***************************************************************************)
(* The string computations above, tabulated over the environment's strings *)
(* (each table entry is the operator's value; the tables only avoid         *)
(* recomputing it in every state)                                          *)
(***************************************************************************)
BaseSet == UNION { { c[i] : i \in 1..Len(c) } : c \in BaseConfigs }

DirOf == [f \in FileUniverse |-> OsPathDirname(f)]

GlobTable ==
    [b \in BaseSet |-> [e \in 1..Len(FileExts) |-> GlobMatches(b, FileExts[e], FileUniverse)]]

AppendTable == [b \in BaseSet |-> [d \in AllDirs |-> FilterAppend(b, d)]]

InfoTable ==
    [b \in BaseSet |-> [d \in AllDirs |-> [doc \in DocOutcomes |-> TaskInfo(b, d, doc)]]]

LoadPathTable == [b \in BaseSet |-> [d \in AllDirs |-> LoadPath(TaskInfo(b, d, "text"))]]

\* the (base, directory) pairs the loops of one pass visit
Visits(config, files) ==
    UNION { { <<config[i], DirOf[f]>> : f \in GlobTable[config[i]][e] \cap files } :
            i \in 1..Len(config), e \in 1..Len(FileExts) }

\* the visited pairs that pass the filter and get a descriptor
Candidates(config, files) ==
    { c \in Visits(config, files) : AppendTable[c[1]][c[2]] }

\* if task_id not in available_tasks_by_path (tasks.py:51)
IsNew(by_path, task_info) == task_info.id \notin DOMAIN by_path

Put(m, k, v) == [x \in DOMAIN m \cup {k} |-> IF x = k THEN v ELSE m[x]]

\* a store that keeps an entry it finds and adds the new descriptor beside it
StoreDescriptorKeepsOld(by_path, task_info) ==
    IF task_info.path \in DOMAIN by_path
    THEN Put(by_path, task_info.path \o <<"~">>, task_info)
    ELSE Put(by_path, task_info.path, task_info)

\* available_tasks_by_path[dir_name]=task_info (tasks.py:52)
StoreDescriptor(by_path, task_info) == Put(by_path, task_info.path, task_info)

\* task.load(path) followed by task.get_jsonform_schema() (tasks.py:57-59):
\* a path that is no task directory on disk cannot be loaded
LoadOutcome(path) ==
    IF \E f \in fs : DirOf[f] = path THEN load_result[path] ELSE "load_error"

\* json.loads(jsonify(task.get_jsonform_schema()['schema']).data.decode('utf-8'))
JsonSchema(path) == <<"schema of">> \o path

\* api.schema_model(task_id, data)
SchemaModel(task_id, data) == [name |-> task_id, schema |-> data]

\* task_models[task_info['path']] = api.schema_model(task_id,data) (tasks.py:60)
RegisterModel(models, task_info, data) ==
    Put(models, task_info.path, SchemaModel(task_info.id, data))

\* @ns.route(f"/{task_info['path']}", endpoint=task_info['path']) (tasks.py:63):
\* the endpoint is registered; registering it again leaves it registered
\* (whether the framework replaces or refuses the second resource class, the
\* refusal is an exception the handler at tasks.py:108 catches)
RegisterRoute(rs, task_info) == rs \cup {task_info.path}

(***************************************************************************)
(* Initial state: the module globals as tasks.py:22-24 create them, and an *)
(* environment (configuration, disk content, collaborator outcomes)        *)
(***************************************************************************)
UnderSomeBase(config, f) ==
    \E i \in 1..Len(config) : IsPrefix(RStripSep(config[i]) \o <<Sep>>, f)

DocDirs(config, files) == { c[2] : c \in Candidates(config, files) }

LoadDirs(config, files) ==
    { LoadPathTable[c[1]][c[2]] : c \in Candidates(config, files) }
        \cap { DirOf[f] : f \in files }

NoResponse == [op |-> "none", path |-> EmptyStr, status |-> 0, body |-> "none"]

Init ==
    /\ tasks_base_dirs \in BaseConfigs
    /\ fs \in { s \in SUBSET FileUniverse :
                  /\ Cardinality(s) \in 1..MaxFiles
                  /\ \A f \in s : UnderSomeBase(tasks_base_dirs, f) }
    /\ \E g \in [LoadDirs(tasks_base_dirs, fs) -> LoadOutcomes] :
          load_result = [d \in AllDirs |->
                            IF d \in LoadDirs(tasks_base_dirs, fs) THEN g[d] ELSE "ok"]
    /\ \E g \in [DocDirs(tasks_base_dirs, fs) -> DocOutcomes] :
          doc_result = [d \in AllDirs |->
                            IF d \in DocDirs(tasks_base_dirs, fs) THEN g[d] ELSE "text"]
    /\ glob_order = << >>
    /\ available_tasks_by_id = << >>
    /\ available_tasks_by_path = << >>
    /\ task_models = << >>
    /\ routes = {}
    /\ task_arguments = 0
    /\ pc = "boot"
    /\ bi = 1
    /\ ei = 1
    /\ yielded = {}
    /\ log = << >>
    /\ by_path_before = << >>
    /\ task_models_before = << >>
    /\ response = NoResponse

env == <<tasks_base_dirs, fs, load_result, doc_result>>

registry == <<available_tasks_by_id, available_tasks_by_path, task_models, routes>>

(***************************************************************************)
(* discover_tasks, tasks.py:26-109                                         *)
(***************************************************************************)
\* entry of discover_tasks: task_arguments.add_argument(...) (tasks.py:28),
\* then the first base directory and the first extension (tasks.py:30-32)
BeginPass ==
    /\ task_arguments' = task_arguments + 1
    /\ pc' = "discovering"
    /\ bi' = 1
    /\ ei' = 1
    /\ yielded' = {}
    /\ by_path_before' = available_tasks_by_path
    /\ task_models_before' = task_models
    /\ UNCHANGED <<env, glob_order, registry, log, response>>

\* run() calls discover_tasks(app) once, before the server starts (__init__.py:203)
DiscoverTasks == pc = "boot" /\ BeginPass

\* a further call of discover_tasks after one that returned
Rediscover == pc = "returned" /\ task_arguments < MaxPasses /\ BeginPass

CurBase == tasks_base_dirs[bi]

Pending == (GlobTable[CurBase][ei] \cap fs) \ yielded

Pos(f) == CHOOSE k \in 1..Len(glob_order) : glob_order[k] = f

\* the files the running glob call may produce next: the listing order of an
\* unchanged directory tree is arbitrary the first time and the same afterwards
NextFiles ==
    LET listed == { f \in Pending : \E k \in 1..Len(glob_order) : glob_order[k] = f }
    IN  IF listed = {} THEN Pending
        ELSE { f \in listed : \A g \in listed : Pos(f) <= Pos(g) }

Yield(f) ==
    /\ yielded' = yielded \cup {f}
    /\ glob_order' = IF \E k \in 1..Len(glob_order) : glob_order[k] = f
                     THEN glob_order ELSE Append(glob_order, f)

\* loop body, the candidate is filtered out (tasks.py:35-41) or already known
\* (tasks.py:51 is false): nothing is stored
SkipCandidate(f) ==
    LET task_dir == DirOf[f]
        info     == InfoTable[CurBase][task_dir][doc_result[task_dir]]
    IN  /\ pc = "discovering"
        /\ f \in NextFiles
        /\ \/ ~ AppendTable[CurBase][task_dir]
           \/ doc_result[task_dir] # "raises" /\ ~ IsNew(available_tasks_by_path, info)
        /\ Yield(f)
        /\ UNCHANGED <<env, registry, task_arguments, pc, bi, ei, log,
                       by_path_before, task_models_before, response>>

\* loop body, get_section_from_task_doc raises at tasks.py:48, outside the try
\* block: the exception leaves discover_tasks and run()
DocRaises(f) ==
    LET task_dir == DirOf[f]
    IN  /\ pc = "discovering"
        /\ f \in NextFiles
        /\ AppendTable[CurBase][task_dir]
        /\ doc_result[task_dir] = "raises"
        /\ pc' = "raised"
        /\ Yield(f)
        /\ UNCHANGED <<env, registry, task_arguments, bi, ei, log,
                       by_path_before, task_models_before, response>>

\* loop body, the task loads and its schema is derived (tasks.py:42-106)
RegisterTask(f) ==
    LET task_dir == DirOf[f]
        info     == InfoTable[CurBase][task_dir][doc_result[task_dir]]
    IN  /\ pc = "discovering"
        /\ f \in NextFiles
        /\ AppendTable[CurBase][task_dir]
        /\ doc_result[task_dir] # "raises"
        /\ IsNew(available_tasks_by_path, info)
        /\ LoadOutcome(LoadPath(info)) = "ok"
        /\ available_tasks_by_path' = StoreDescriptor(available_tasks_by_path, info)
        /\ task_models' = RegisterModel(task_models, info, JsonSchema(LoadPath(info)))
        /\ routes' = RegisterRoute(routes, info)
        /\ log' = Append(log, <<"info", task_dir>>)
        /\ Yield(f)
        /\ UNCHANGED <<env, available_tasks_by_id, task_arguments, pc, bi, ei,
                       by_path_before, task_models_before, response>>

\* a loop body whose failure ends the loops (the try block around the loops
\* instead of inside them)
RegisterFailsStopsPass(f) ==
    LET task_dir == DirOf[f]
        info     == InfoTable[CurBase][task_dir][doc_result[task_dir]]
    IN  /\ pc = "discovering"
        /\ f \in NextFiles
        /\ AppendTable[CurBase][task_dir]
        /\ doc_result[task_dir] # "raises"
        /\ IsNew(available_tasks_by_path, info)
        /\ LoadOutcome(LoadPath(info)) # "ok"
        /\ available_tasks_by_path' = StoreDescriptor(available_tasks_by_path, info)
        /\ log' = Append(log, <<"error", task_dir>>)
        /\ pc' = "returned"
        /\ Yield(f)
        /\ UNCHANGED <<env, available_tasks_by_id, task_models, routes, task_arguments,
                       bi, ei, by_path_before, task_models_before, response>>

\* loop body, task.load or the schema derivation raises: the descriptor stored at
\* tasks.py:52 stays, the handler at tasks.py:108-109 logs and the loop goes on
RegisterFails(f) ==
    LET task_dir == DirOf[f]
        info     == InfoTable[CurBase][task_dir][doc_result[task_dir]]
    IN  /\ pc = "discovering"
        /\ f \in NextFiles
        /\ AppendTable[CurBase][task_dir]
        /\ doc_result[task_dir] # "raises"
        /\ IsNew(available_tasks_by_path, info)
        /\ LoadOutcome(LoadPath(info)) # "ok"
        /\ available_tasks_by_path' = StoreDescriptor(available_tasks_by_path, info)
        /\ log' = Append(log, <<"error", task_dir>>)
        /\ pc' = pc
        /\ Yield(f)
        /\ UNCHANGED <<env, available_tasks_by_id, task_models, routes, task_arguments,
                       bi, ei, by_path_before, task_models_before, response>>

\* the glob of one extension is exhausted: the next extension (tasks.py:31)
NextExt ==
    /\ pc = "discovering"
    /\ Pending = {}
    /\ ei < Len(FileExts)
    /\ ei' = ei + 1
    /\ yielded' = {}
    /\ UNCHANGED <<env, glob_order, registry, task_arguments, pc, bi, log,
                   by_path_before, task_models_before, response>>

\* both extensions are done: the next base directory (tasks.py:30)
NextBase ==
    /\ pc = "discovering"
    /\ Pending = {}
    /\ ei = Len(FileExts)
    /\ bi < Len(tasks_base_dirs)
    /\ bi' = bi + 1
    /\ ei' = 1
    /\ yielded' = {}
    /\ UNCHANGED <<env, glob_order, registry, task_arguments, pc, log,
                   by_path_before, task_models_before, response>>

\* the loops are over: discover_tasks returns
Return ==
    /\ pc = "discovering"
    /\ Pending = {}
    /\ ei = Len(FileExts)
    /\ bi = Len(tasks_base_dirs)
    /\ pc' = "returned"
    /\ UNCHANGED <<env, glob_order, registry, task_arguments, bi, ei, yielded, log,
                   by_path_before, task_models_before, response>>

(***************************************************************************)
(* run() and the request handlers                                          *)
(***************************************************************************)
\* app.run(...) (__init__.py:237, 245, 252): reached only when discover_tasks returned
AppRun ==
    /\ pc = "returned"
    /\ pc' = "serving"
    /\ UNCHANGED <<env, glob_order, registry, task_arguments, bi, ei, yielded, log,
                   by_path_before, task_models_before, response>>

\* TaskList.get (tasks.py:115-124): every value of available_tasks_by_path
TaskListGet ==
    /\ pc = "serving"
    /\ response' = [op |-> "GET", path |-> EmptyStr, status |-> 200,
                    body |-> { available_tasks_by_path[k] :
                                 k \in DOMAIN available_tasks_by_path }]
    /\ UNCHANGED <<env, glob_order, registry, task_arguments, pc, bi, ei, yielded, log,
                   by_path_before, task_models_before>>

\* the values of schema-type the handler answers (tasks.py:86-95)
SchemaTypes == {"", "full", "schema", "data", "options", "view"}

\* APIJinjamatorTask.get (tasks.py:67-97): a fresh task is loaded for the request;
\* whether that load succeeds is the task runtime's answer
TaskGet ==
    /\ pc = "serving"
    /\ \E p \in routes, st \in SchemaTypes, loaded \in BOOLEAN :
          response' = IF loaded
                      THEN [op |-> "GET", path |-> p, status |-> 200,
                            body |-> IF st \in {"", "full"} THEN "full" ELSE st]
                      ELSE [op |-> "GET", path |-> p, status |-> 500, body |-> "error"]
    /\ UNCHANGED <<env, glob_order, registry, task_arguments, pc, bi, ei, yielded, log,
                   by_path_before, task_models_before>>

\* APIJinjamatorTask.post (tasks.py:99-106): a body that fails the expected model
\* is refused by the framework's validation (RESTPLUS_VALIDATE, __init__.py:106);
\* for a valid body the handler calls log.info() without the message argument,
\* which raises TypeError before "return {}" is reached
TaskPost ==
    /\ pc = "serving"
    /\ \E p \in routes, valid \in BOOLEAN :
          response' = IF valid
                      THEN [op |-> "POST", path |-> p, status |-> 500, body |-> "TypeError"]
                      ELSE [op |-> "POST", path |-> p, status |-> 400,
                            body |-> "validation error"]
    /\ UNCHANGED <<env, glob_order, registry, task_arguments, pc, bi, ei, yielded, log,
                   by_path_before, task_models_before>>

(***************************************************************************)
(* Specifications                                                          *)
(***************************************************************************)
\* run(): one discovery pass, then the server
Next ==
    \/ DiscoverTasks
    \/ \E f \in fs : SkipCandidate(f)
    \/ \E f \in fs : DocRaises(f)
    \/ \E f \in fs : RegisterTask(f)
    \/ \E f \in fs : RegisterFails(f)
    \/ NextExt
    \/ NextBase
    \/ Return
    \/ AppRun
    \/ TaskListGet
    \/ TaskGet
    \/ TaskPost

Spec == Init /\ [][Next]_vars

\* discover_tasks called again after it returned, up to MaxPasses times
NextRescan ==
    \/ DiscoverTasks
    \/ Rediscover
    \/ \E f \in fs : SkipCandidate(f)
    \/ \E f \in fs : DocRaises(f)
    \/ \E f \in fs : RegisterTask(f)
    \/ \E f \in fs : RegisterFails(f)
    \/ NextExt
    \/ NextBase
    \/ Return

SpecRescan == Init /\ [][NextRescan]_vars

\* run() over the plainly written environments: base directories without a
\* trailing separator, whose string occurs once in every path below them
PlainConfigs == { <<BaseT>>, <<BaseT, BaseU>>, <<BaseU, BaseT>> }

InitPlain ==
    /\ Init
    /\ tasks_base_dirs \in PlainConfigs
    /\ \A f \in fs : \A i \in 1..Len(tasks_base_dirs) :
          StrReplace(f, tasks_base_dirs[i]) \in
              { f, SubSeq(f, Len(tasks_base_dirs[i]) + 1, Len(f)) }

SpecPlain == InitPlain /\ [][Next]_vars

(***************************************************************************)
(* Properties                                                              *)
(***************************************************************************)
PassReturned == pc \in {"returned", "serving"}

Descriptors == { available_tasks_by_path[p] : p \in DOMAIN available_tasks_by_path }

\* the directory a descriptor's id was derived from
DirOfId(id) == Tail(id)

\* the path components from the base directory (exclusive) to dir (inclusive)
ComponentsBelow(base, dir) ==
    StrSplit(SubSeq(dir, Len(RStripSep(base)) + 2, Len(dir)))

Excluded(chunk) == IsPrefix(<<".">>, chunk) \/ chunk = PyCache

InfoOf(c) == InfoTable[c[1]][c[2]][doc_result[c[2]]]

Loads(c) == LoadOutcome(LoadPathTable[c[1]][c[2]]) = "ok"

C2_FailedCandidateExcluded ==
    PassReturned =>
        \A p \in DOMAIN available_tasks_by_path : p \in DOMAIN task_models

\* C3: a further discovery pass over the unchanged environment ends with
\* available_tasks_by_path and task_models equal (keys, size, descriptors,
\* schema models) to what they were when it began.
C3_RediscoveryChangesNothing ==
    (pc = "returned" /\ task_arguments >= 2) =>
        /\ available_tasks_by_path = by_path_before
        /\ task_models = task_models_before

\* a second pass has returned over a registry holding a registered task
C3_Witness ==
    /\ pc = "returned"
    /\ task_arguments = 2
    /\ \E p \in DOMAIN available_tasks_by_path : p \in DOMAIN task_models

\* C4: a loop step for a candidate whose relative path is already a key of
\* available_tasks_by_path changes neither the stored descriptors nor the
\* schema models nor the routes, and attempts no registration (writes no log).
C4_KnownPathSkipped ==
    [][ \A f \in fs :
          ( /\ pc = "discovering"
            /\ f \in NextFiles
            /\ AppendTable[CurBase][DirOf[f]]
            /\ doc_result[DirOf[f]] # "raises"
            /\ InfoOf(<<CurBase, DirOf[f]>>).path \in DOMAIN available_tasks_by_path
            /\ yielded' = yielded \cup {f} )
          => UNCHANGED <<available_tasks_by_path, task_models, routes, log>> ]_vars

\* C5: after a discovery pass no descriptor belongs to a directory with a
\* component starting with "." or equal to "__pycache__" between its base
\* directory (exclusive) and itself (inclusive).
C5_NoHiddenOrCacheEntry ==
    PassReturned =>
        \A d \in Descriptors :
            LET chunks == ComponentsBelow(d.base_dir, DirOfId(d.id))
            IN  \A i \in 1..Len(chunks) : ~ Excluded(chunks[i])

\* C6: every descriptor's path is its directory with the base directory prefix
\* and one separator stripped, so os.path.join(base_dir, path) is the directory.
C6_RelativePathRoundTrip ==
    \A d \in Descriptors :
        /\ d.path = SubSeq(DirOfId(d.id), Len(RStripSep(d.base_dir)) + 2,
                           Len(DirOfId(d.id)))
        /\ OsPathJoin(d.base_dir, d.path) = DirOfId(d.id)

\* C7: the response to a POST whose body passed validation is a success that
\* carries a job identifier.
C7_PostReturnsJobId ==
    (response.op = "POST" /\ response.status # 400) =>
        /\ response.status = 200
        /\ response.body = "job_id"

\* C8: the documentation extractor never ends a pass: a candidate for which it
\* raises or returns nothing gets the description 'no description'.
C8_ExtractorNeverFails ==
    /\ pc # "raised"
    /\ \A d \in Descriptors :
          doc_result[DirOfId(d.id)] # "text" => d.description = "no description"

\* C9: the descriptors held in available_tasks_by_id are those held in
\* available_tasks_by_path, each under its id.
C9_TwoViewsAgree ==
    /\ Descriptors = { available_tasks_by_id[i] : i \in DOMAIN available_tasks_by_id }
    /\ \A i \in DOMAIN available_tasks_by_id : available_tasks_by_id[i].id = i

\* C10: while request handlers can run (the server is up, no pass in flight),
\* every descriptor visible in available_tasks_by_path has its schema model and
\* its route.
C10_NoPartialTaskVisible ==
    pc = "serving" =>
        /\ task_arguments = 1
        /\ \A d \in Descriptors : d.path \in DOMAIN task_models /\ d.path \in routes

====
